---- MODULE Spec2Model ----
(***************************************************************************)
(* State-machine model of the Searchbar component                          *)
(* (src/src/components/searchbar/searchbar.ts).                            *)
(*                                                                         *)
(* JavaScript values are tagged records, strings are sequences of          *)
(* one-character strings, time is an integer number of milliseconds.       *)
(***************************************************************************)
EXTENDS Integers, Sequences, FiniteSets

VARIABLES
  phase,            \* lifecycle: "constructed", "initialized", "ready", "destroyed"
  _value,           \* Searchbar._value
  _tmr,             \* Searchbar._tmr (timer handle, NoHandle = never assigned)
  _shouldBlur,      \* Searchbar._shouldBlur
  isFocused,        \* Searchbar.isFocused
  shouldLeftAlign,  \* Searchbar.shouldLeftAlign
  mode,             \* Searchbar.mode
  style,            \* inline style of inputEle and iconEle
  debounce,         \* Searchbar.debounce, in half milliseconds
  onChange,         \* Searchbar.onChange (the registered change callback)
  timers,           \* the host's pending setTimeout callbacks
  nextHandle,       \* the next handle setTimeout returns
  now,              \* the host clock, in milliseconds
  out,              \* what the last step emitted / called, in order
  lastOp,           \* the last step taken and its argument
  burst,            \* history of the current burst of input events
  props,            \* Searchbar.autocomplete, autocorrect, spellcheck
  config,           \* what the host configuration holds for these three
  inputAttrs,       \* the attributes set on inputEle
  stale             \* handles of the timers that were pending when clearInput
                    \* last ran, no input event or assignment of the value since

vars == <<phase, _value, _tmr, _shouldBlur, isFocused, shouldLeftAlign, mode,
          style, debounce, onChange, timers, nextHandle, now, out, lastOp, burst,
          props, config, inputAttrs, stale>>

-----------------------------------------------------------------------------
(* Bounds *)

MaxInputs == 2      \* input events (and so timer handles) per behaviour
MaxTime == 350      \* the clock stops here

-----------------------------------------------------------------------------
(* JavaScript values *)

Undefined == [t |-> "undefined"]
Null == [t |-> "null"]
Bool(b) == [t |-> "boolean", b |-> b]
Str(s) == [t |-> "string", s |-> s]
Num(n) == [t |-> "number", n |-> n]

EmptyStr == Str(<<>>)

\* what the user can have typed into the <input> (ev.target.value)
InputTexts == {Str(<<"a">>), Str(<<"a", "b">>)}

\* what the host can assign through writeValue / the value setter
HostValues == {Undefined, Str(<<" ">>), Str(<<"a">>), Num(0), Num(7)}

\* the values the debounce property is given, in half milliseconds:
\* 250 (the default) and 99.5
DebounceChoices == {500, 199}

\* the callbacks the form control can register
Callbacks == {"fn1"}

\* the values Config.get('mode') can return
Modes == {"ios", "md"}

\* the step sizes of the clock
Steps == {100}

NoHandle == 0

\* JavaScript truthiness
Truthy(v) ==
  CASE v.t = "undefined" -> FALSE
    [] v.t = "null" -> FALSE
    [] v.t = "boolean" -> v.b
    [] v.t = "string" -> v.s # <<>>
    [] v.t = "number" -> v.n # 0

\* util.isPresent: neither undefined nor null
isPresent(v) == v.t \notin {"undefined", "null"}

Digit(d) == <<"0", "1", "2", "3", "4", "5", "6", "7", "8", "9">>[d + 1]

RECURSIVE NatToString(_)
NatToString(n) ==
  IF n < 10 THEN <<Digit(n)>> ELSE NatToString(n \div 10) \o <<Digit(n % 10)>>

\* value.toString() for a string, a non-negative integer or a boolean
toString(v) ==
  CASE v.t = "string" -> v.s
    [] v.t = "number" -> NatToString(v.n)
    [] v.t = "boolean" -> IF v.b THEN <<"t", "r", "u", "e">> ELSE <<"f", "a", "l", "s", "e">>

IsSpace(c) == c \in {" ", "\t", "\n"}

RECURSIVE trimLeft(_)
trimLeft(s) ==
  IF s # <<>> /\ IsSpace(Head(s)) THEN trimLeft(Tail(s)) ELSE s

RECURSIVE trimRight(_)
trimRight(s) ==
  IF s # <<>> /\ IsSpace(s[Len(s)]) THEN trimRight(SubSeq(s, 1, Len(s) - 1)) ELSE s

\* String.prototype.trim
trim(s) == trimRight(trimLeft(s))

\* this._value && this._value.toString().trim() !== ''
\* (a falsy left operand of && is itself the result)
AlignOf(v) ==
  IF Truthy(v) THEN Bool(trim(toString(v)) # <<>>) ELSE v

\* Math.round of a number given in halves: floor(x + 0.5)
RoundFloor(h) == h \div 2
Round(h) == (h + 1) \div 2

-----------------------------------------------------------------------------
(* Attribute defaults *)

On == Str(<<"o", "n">>)
Off == Str(<<"o", "f", "f">>)
TrueStr == Str(<<"t", "r", "u", "e">>)
FalseStr == Str(<<"f", "a", "l", "s", "e">>)

\* the values the host can give the autocomplete / autocorrect properties
OnOffProps == {Undefined, EmptyStr, On, Off}

\* the values the host can give the spellcheck property
SpellcheckProps ==
  {Undefined, EmptyStr, TrueStr, FalseStr, Bool(TRUE), Bool(FALSE)}

\* what the host configuration can hold for autocomplete / autocorrect
OnOffConfigs == {Undefined, On, Off}

\* what the host configuration can hold for spellcheck
SpellcheckConfigs == {Undefined, Bool(TRUE), Bool(FALSE)}

NoProps == [autocomplete |-> Undefined, autocorrect |-> Undefined,
            spellcheck |-> Undefined]

NoAttrs == [set |-> FALSE]

\* Config.get(key, fallback): the configured value, the fallback when none is
\* configured
ConfigGet(cfg, key, fallback) ==
  IF cfg[key] # Undefined THEN cfg[key] ELSE fallback

\* Config.getBoolean(key, fallback): the configured value as a boolean, the
\* fallback when none is configured
ConfigGetBoolean(cfg, key, fallback) ==
  IF cfg[key] = Undefined THEN fallback
  ELSE IF cfg[key].t = "string" THEN Bool(cfg[key] = TrueStr)
  ELSE Bool(Truthy(cfg[key]))

\* (p === '' || p === 'on') ? 'on' : config.get(key, 'off')
OnOffAttr(p, cfg, key) ==
  IF p = EmptyStr \/ p = On THEN On ELSE ConfigGet(cfg, key, Off)

\* (p === '' || p === 'true' || p === true) ? true
\*                                          : config.getBoolean('spellcheck', false)
SpellcheckAttr(p, cfg) ==
  IF p = EmptyStr \/ p = TrueStr \/ p = Bool(TRUE) THEN Bool(TRUE)
  ELSE ConfigGetBoolean(cfg, "spellcheck", Bool(FALSE))

\* setAttribute(name, v) stores the string form of v
AttrString(v) == Str(toString(v))

-----------------------------------------------------------------------------
(* Events, notifications, timers *)

\* a DOM event; input events are told apart by id
Ev(type, id, value) == [type |-> type, id |-> id, value |-> value]

Emit(name, ev) == [k |-> "emit", name |-> name, ev |-> ev]
Call(fn, arg) == [k |-> "call", fn |-> fn, arg |-> arg]
DomFocus == [k |-> "inputEle.focus"]

Emits(o, name) == {i \in DOMAIN o : o[i].k = "emit" /\ o[i].name = name}
Calls(o) == {i \in DOMAIN o : o[i].k = "call"}

Op(name, arg) == [op |-> name, arg |-> arg]

NoBurst == [len |-> 0, commits |-> <<>>]

\* setElementLeft() without the test of the mode
setElementLeft_noModeCheck(m, sla, st) ==
  IF Truthy(sla) THEN [input |-> "none", icon |-> "none"]
  ELSE [input |-> "paddingLeft", icon |-> "marginLeft"]

\* setElementLeft()/addElementLeft(): the inline styles after the call
Centered == [input |-> "paddingLeft", icon |-> "marginLeft"]
NoStyle == [input |-> "none", icon |-> "none"]
setElementLeft(m, sla, st) ==
  IF m # "ios" THEN st
  ELSE IF Truthy(sla) THEN NoStyle
  ELSE Centered

-----------------------------------------------------------------------------
(* Initial state: after the constructor and the field initialisers *)

InitFields ==
  /\ phase = "constructed"
  /\ _value = EmptyStr
  /\ _tmr = NoHandle
  /\ _shouldBlur = TRUE
  /\ isFocused = Undefined
  /\ shouldLeftAlign = Undefined
  /\ mode = "unset"
  /\ style = NoStyle
  /\ debounce \in DebounceChoices
  /\ onChange = "noop"
  /\ timers = {}
  /\ nextHandle = 1
  /\ now = 0
  /\ out = <<>>
  /\ lastOp = Op("constructor", Undefined)
  /\ burst = NoBurst
  /\ inputAttrs = NoAttrs
  /\ stale = {}

\* the host leaves autocomplete, autocorrect and spellcheck unset and
\* configures none of them
Init ==
  /\ InitFields
  /\ props = NoProps
  /\ config = NoProps

\* the host sets the three properties and configures the three defaults in
\* every combination
InitAttr ==
  /\ InitFields
  /\ props \in [autocomplete : OnOffProps, autocorrect : OnOffProps,
                spellcheck : SpellcheckProps]
  /\ config \in [autocomplete : OnOffConfigs, autocorrect : OnOffConfigs,
                 spellcheck : SpellcheckConfigs]

Alive == phase # "destroyed"
Ready == phase = "ready"

-----------------------------------------------------------------------------
(* Lifecycle and form-control operations *)

\* set value(val)
setValue(val) ==
  /\ Alive
  /\ _value' = val
  /\ out' = <<>>
  /\ lastOp' = Op("setValue", val)
  /\ UNCHANGED <<phase, _tmr, _shouldBlur, isFocused, shouldLeftAlign, mode,
                 style, debounce, onChange, timers, nextHandle, now, burst>>
  /\ UNCHANGED <<props, config, inputAttrs>>
  /\ stale' = {}

\* writeValue(val) that also notifies the form control
writeValue_notifying(val) ==
  /\ Alive
  /\ _value' = val
  /\ out' = <<Call(onChange, val)>>
  /\ lastOp' = Op("writeValue", val)
  /\ UNCHANGED <<phase, _tmr, _shouldBlur, isFocused, shouldLeftAlign, mode,
                 style, debounce, onChange, timers, nextHandle, now, burst>>
  /\ UNCHANGED <<props, config, inputAttrs>>
  /\ stale' = {}

\* writeValue(val)
writeValue(val) ==
  /\ Alive
  /\ _value' = val
  /\ out' = <<>>
  /\ lastOp' = Op("writeValue", val)
  /\ UNCHANGED <<phase, _tmr, _shouldBlur, isFocused, shouldLeftAlign, mode,
                 style, debounce, onChange, timers, nextHandle, now, burst>>
  /\ UNCHANGED <<props, config, inputAttrs>>
  /\ stale' = {}

\* registerOnChange(fn)
registerOnChange(fn) ==
  /\ Alive
  /\ onChange' = fn
  /\ out' = <<>>
  /\ lastOp' = Op("registerOnChange", Undefined)
  /\ UNCHANGED <<phase, _value, _tmr, _shouldBlur, isFocused, shouldLeftAlign,
                 mode, style, debounce, timers, nextHandle, now, burst>>
  /\ UNCHANGED <<props, config, inputAttrs>>
  /\ UNCHANGED stale

\* ngOnInit()
ngOnInit ==
  /\ phase = "constructed"
  /\ phase' = "initialized"
  /\ \E m \in Modes : mode' = m
  /\ shouldLeftAlign' = AlignOf(_value)
  /\ out' = <<>>
  /\ lastOp' = Op("ngOnInit", Undefined)
  /\ UNCHANGED <<_value, _tmr, _shouldBlur, isFocused, style, debounce,
                 onChange, timers, nextHandle, now, burst>>
  /\ UNCHANGED <<props, config, inputAttrs>>
  /\ UNCHANGED stale

\* the @ViewChild setter _searchbarInput: inputEle and its attributes
_searchbarInput ==
  /\ phase = "initialized"
  /\ ~inputAttrs.set
  /\ inputAttrs' =
       [set |-> TRUE,
        autocomplete |-> AttrString(OnOffAttr(props.autocomplete, config, "autocomplete")),
        autocorrect |-> AttrString(OnOffAttr(props.autocorrect, config, "autocorrect")),
        spellcheck |-> AttrString(SpellcheckAttr(props.spellcheck, config)),
        type |-> "search"]
  /\ out' = <<>>
  /\ lastOp' = Op("_searchbarInput", Undefined)
  /\ UNCHANGED <<phase, _value, _tmr, _shouldBlur, isFocused, shouldLeftAlign,
                 mode, style, debounce, onChange, timers, nextHandle, now,
                 burst, props, config, stale>>

\* ngAfterViewInit()
ngAfterViewInit ==
  /\ phase = "initialized"
  /\ inputAttrs.set
  /\ phase' = "ready"
  /\ style' = setElementLeft(mode, shouldLeftAlign, style)
  /\ out' = <<>>
  /\ lastOp' = Op("ngAfterViewInit", Undefined)
  /\ UNCHANGED <<_value, _tmr, _shouldBlur, isFocused, shouldLeftAlign, mode,
                 debounce, onChange, timers, nextHandle, now, burst>>
  /\ UNCHANGED <<props, config, inputAttrs>>
  /\ UNCHANGED stale

\* the component is destroyed: the class has no ngOnDestroy hook, so nothing
\* of its state changes; the host delivers no further DOM events
destroy ==
  /\ Ready
  /\ phase' = "destroyed"
  /\ out' = <<>>
  /\ lastOp' = Op("destroy", Undefined)
  /\ UNCHANGED <<_value, _tmr, _shouldBlur, isFocused, shouldLeftAlign, mode,
                 style, debounce, onChange, timers, nextHandle, now, burst>>
  /\ UNCHANGED <<props, config, inputAttrs>>
  /\ UNCHANGED stale

-----------------------------------------------------------------------------
(* The debounced input normalizer *)

\* the events the host can deliver
InputEvents == {Ev("input", nextHandle, v) : v \in InputTexts}
FocusEvents == {Ev("focus", 0, Undefined)}
BlurEvents == {Ev("blur", 0, Undefined)}
\* (the template binds the button handlers to click and to mousedown alike,
\* and the handlers do not look at the event)
ButtonEvents == {Ev("click", 0, Undefined)}

\* the history of the burst of input events, extended by one event: an event
\* that arrives less than debounce after the previous one continues the burst
BurstAfter(ev) ==
  IF burst.len > 0 /\ 2 * (now - burst.lastAt) < debounce
  THEN [burst EXCEPT !.len = @ + 1, !.lastAt = now, !.lastEv = ev]
  ELSE [len |-> 1, firstAt |-> now, firstEv |-> ev, lastAt |-> now,
        lastEv |-> ev, commits |-> <<>>]

\* inputChanged(ev) without the clearTimeout
inputChanged_noCancel(ev) ==
  /\ Ready
  /\ nextHandle <= MaxInputs
  /\ timers' = timers \cup
        {[id |-> nextHandle, value |-> ev.value, ev |-> ev,
          due |-> now + Round(debounce)]}
  /\ _tmr' = nextHandle
  /\ nextHandle' = nextHandle + 1
  /\ burst' = BurstAfter(ev)
  /\ out' = <<>>
  /\ lastOp' = Op("inputChanged", ev)
  /\ UNCHANGED <<phase, _value, _shouldBlur, isFocused, shouldLeftAlign, mode,
                 style, debounce, onChange, now>>
  /\ UNCHANGED <<props, config, inputAttrs>>
  /\ stale' = {}

\* inputChanged(ev): clearTimeout(this._tmr), then setTimeout(commit, round(debounce))
inputChanged(ev) ==
  /\ Ready
  /\ nextHandle <= MaxInputs
  /\ timers' = {t \in timers : t.id # _tmr} \cup
        {[id |-> nextHandle, value |-> ev.value, ev |-> ev,
          due |-> now + Round(debounce)]}
  /\ _tmr' = nextHandle
  /\ nextHandle' = nextHandle + 1
  /\ burst' = BurstAfter(ev)
  /\ out' = <<>>
  /\ lastOp' = Op("inputChanged", ev)
  /\ UNCHANGED <<phase, _value, _shouldBlur, isFocused, shouldLeftAlign, mode,
                 style, debounce, onChange, now>>
  /\ UNCHANGED <<props, config, inputAttrs>>
  /\ stale' = {}

\* the timer callback calling onChange before it assigns the value
timerFired_callsOldValue(t) ==
  /\ t \in timers
  /\ t.due <= now
  /\ timers' = timers \ {t}
  /\ _value' = t.value
  /\ out' = <<Call(onChange, _value), Emit("ionInput", t.ev)>>
  /\ burst' = [burst EXCEPT !.commits =
                  Append(@, [at |-> now, ev |-> t.ev, value |-> t.value])]
  /\ lastOp' = Op("timerFired", t.ev)
  /\ UNCHANGED <<phase, _tmr, _shouldBlur, isFocused, shouldLeftAlign, mode,
                 style, debounce, onChange, nextHandle, now>>
  /\ UNCHANGED <<props, config, inputAttrs>>
  /\ stale' = stale \ {t.id}

\* the callback given to setTimeout runs: the host runs it when it is due,
\* whatever the lifecycle phase of the component
timerFired(t) ==
  /\ t \in timers
  /\ t.due <= now
  /\ timers' = timers \ {t}
  /\ _value' = t.value
  /\ out' = <<Call(onChange, t.value), Emit("ionInput", t.ev)>>
  /\ burst' = [burst EXCEPT !.commits =
                  Append(@, [at |-> now, ev |-> t.ev, value |-> t.value])]
  /\ lastOp' = Op("timerFired", t.ev)
  /\ UNCHANGED <<phase, _tmr, _shouldBlur, isFocused, shouldLeftAlign, mode,
                 style, debounce, onChange, nextHandle, now>>
  /\ UNCHANGED <<props, config, inputAttrs>>
  /\ stale' = stale \ {t.id}

\* the host clock advances by d; a due callback runs before the clock moves on
\* (the clock starts when the view is initialised)
tick(d) ==
  /\ phase \in {"ready", "destroyed"}
  /\ d > 0
  /\ now + d <= MaxTime
  /\ \A t \in timers : now + d <= t.due
  /\ now' = now + d
  /\ out' = <<>>
  /\ lastOp' = Op("tick", Undefined)
  /\ UNCHANGED <<phase, _value, _tmr, _shouldBlur, isFocused, shouldLeftAlign,
                 mode, style, debounce, onChange, timers, nextHandle, burst>>
  /\ UNCHANGED <<props, config, inputAttrs>>
  /\ UNCHANGED stale

-----------------------------------------------------------------------------
(* The focus / alignment controller *)

\* inputFocused(ev) that leaves the alignment as it is
inputFocused_keepAlign(ev) ==
  /\ Ready
  /\ out' = <<Emit("ionFocus", ev)>>
  /\ isFocused' = Bool(TRUE)
  /\ style' = setElementLeft(mode, shouldLeftAlign, style)
  /\ lastOp' = Op("inputFocused", ev)
  /\ UNCHANGED <<phase, _value, _tmr, _shouldBlur, shouldLeftAlign, mode,
                 debounce, onChange, timers, nextHandle, now, burst>>
  /\ UNCHANGED <<props, config, inputAttrs>>
  /\ UNCHANGED stale

\* inputFocused(ev)
inputFocused(ev) ==
  /\ Ready
  /\ out' = <<Emit("ionFocus", ev)>>
  /\ isFocused' = Bool(TRUE)
  /\ shouldLeftAlign' = Bool(TRUE)
  /\ style' = setElementLeft(mode, shouldLeftAlign', style)
  /\ lastOp' = Op("inputFocused", ev)
  /\ UNCHANGED <<phase, _value, _tmr, _shouldBlur, mode, debounce, onChange,
                 timers, nextHandle, now, burst>>
  /\ UNCHANGED <<props, config, inputAttrs>>
  /\ UNCHANGED stale

\* inputBlurred(ev) that unfocuses although the blur is suppressed
inputBlurred_unfocusOnSuppress(ev) ==
  /\ Ready
  /\ lastOp' = Op("inputBlurred", ev)
  /\ IF _shouldBlur = FALSE
     THEN /\ out' = <<DomFocus>>
          /\ _shouldBlur' = TRUE
          /\ isFocused' = Bool(FALSE)
          /\ UNCHANGED <<shouldLeftAlign, style>>
     ELSE /\ out' = <<Emit("ionBlur", ev)>>
          /\ isFocused' = Bool(FALSE)
          /\ shouldLeftAlign' = AlignOf(_value)
          /\ style' = setElementLeft(mode, shouldLeftAlign', style)
          /\ UNCHANGED _shouldBlur
  /\ UNCHANGED <<phase, _value, _tmr, mode, debounce, onChange, timers,
                 nextHandle, now, burst>>
  /\ UNCHANGED <<props, config, inputAttrs>>
  /\ UNCHANGED stale

\* inputBlurred(ev) that leaves the flag raised when it suppresses the blur
inputBlurred_keepFlag(ev) ==
  /\ Ready
  /\ lastOp' = Op("inputBlurred", ev)
  /\ IF _shouldBlur = FALSE
     THEN /\ out' = <<DomFocus>>
          /\ UNCHANGED <<_shouldBlur, isFocused, shouldLeftAlign, style>>
     ELSE /\ out' = <<Emit("ionBlur", ev)>>
          /\ isFocused' = Bool(FALSE)
          /\ shouldLeftAlign' = AlignOf(_value)
          /\ style' = setElementLeft(mode, shouldLeftAlign', style)
          /\ UNCHANGED _shouldBlur
  /\ UNCHANGED <<phase, _value, _tmr, mode, debounce, onChange, timers,
                 nextHandle, now, burst>>
  /\ UNCHANGED <<props, config, inputAttrs>>
  /\ UNCHANGED stale

\* inputBlurred(ev)
inputBlurred(ev) ==
  /\ Ready
  /\ lastOp' = Op("inputBlurred", ev)
  /\ IF _shouldBlur = FALSE
     THEN /\ out' = <<DomFocus>>
          /\ _shouldBlur' = TRUE
          /\ UNCHANGED <<isFocused, shouldLeftAlign, style>>
     ELSE /\ out' = <<Emit("ionBlur", ev)>>
          /\ isFocused' = Bool(FALSE)
          /\ shouldLeftAlign' = AlignOf(_value)
          /\ style' = setElementLeft(mode, shouldLeftAlign', style)
          /\ UNCHANGED _shouldBlur
  /\ UNCHANGED <<phase, _value, _tmr, mode, debounce, onChange, timers,
                 nextHandle, now, burst>>
  /\ UNCHANGED <<props, config, inputAttrs>>
  /\ UNCHANGED stale

\* the condition under which clearInput commits the empty value, without the
\* comparison with ''
ClearCommits_presentOnly(v) == isPresent(v)

\* isPresent(this._value) && this._value !== ''
ClearCommits(v) == isPresent(v) /\ v # EmptyStr

\* the value clearInput leaves
ClearedValue(v) == IF ClearCommits(v) THEN EmptyStr ELSE v

\* clearInput emitting ionInput without calling the change callback
ClearOut_emitOnly(v, ev) ==
  <<Emit("ionClear", ev)>> \o
  (IF isPresent(v) /\ v # EmptyStr THEN <<Emit("ionInput", ev)>> ELSE <<>>)

\* what clearInput emits and calls, in order
ClearOut(v, ev) ==
  <<Emit("ionClear", ev)>> \o
  (IF ClearCommits(v)
   THEN <<Call(onChange, EmptyStr), Emit("ionInput", ev)>>
   ELSE <<>>)

\* clearInput(ev) that raises the flag only when it commits
clearInput_flagOnCommit(ev) ==
  /\ Ready
  /\ out' = ClearOut(_value, ev)
  /\ _value' = ClearedValue(_value)
  /\ _shouldBlur' = IF ClearCommits(_value) THEN FALSE ELSE _shouldBlur
  /\ lastOp' = Op("clearInput", ev)
  /\ UNCHANGED <<phase, _tmr, isFocused, shouldLeftAlign, mode, style,
                 debounce, onChange, timers, nextHandle, now, burst>>
  /\ UNCHANGED <<props, config, inputAttrs>>
  /\ stale' = {t.id : t \in timers}

\* clearInput(ev)
clearInput(ev) ==
  /\ Ready
  /\ out' = ClearOut(_value, ev)
  /\ _value' = ClearedValue(_value)
  /\ _shouldBlur' = FALSE
  /\ lastOp' = Op("clearInput", ev)
  /\ UNCHANGED <<phase, _tmr, isFocused, shouldLeftAlign, mode, style,
                 debounce, onChange, timers, nextHandle, now, burst>>
  /\ UNCHANGED <<props, config, inputAttrs>>
  /\ stale' = {t.id : t \in timers}

\* cancelSearchbar(ev) that emits ionCancel after the clear
cancelSearchbar_clearFirst(ev) ==
  /\ Ready
  /\ out' = ClearOut(_value, ev) \o <<Emit("ionCancel", ev)>>
  /\ _value' = ClearedValue(_value)
  /\ _shouldBlur' = TRUE
  /\ lastOp' = Op("cancelSearchbar", ev)
  /\ UNCHANGED <<phase, _tmr, isFocused, shouldLeftAlign, mode, style,
                 debounce, onChange, timers, nextHandle, now, burst>>
  /\ UNCHANGED <<props, config, inputAttrs>>
  /\ stale' = {t.id : t \in timers}

\* cancelSearchbar(ev) that leaves the flag as clearInput set it
cancelSearchbar_noReset(ev) ==
  /\ Ready
  /\ out' = <<Emit("ionCancel", ev)>> \o ClearOut(_value, ev)
  /\ _value' = ClearedValue(_value)
  /\ _shouldBlur' = FALSE
  /\ lastOp' = Op("cancelSearchbar", ev)
  /\ UNCHANGED <<phase, _tmr, isFocused, shouldLeftAlign, mode, style,
                 debounce, onChange, timers, nextHandle, now, burst>>
  /\ UNCHANGED <<props, config, inputAttrs>>
  /\ stale' = {t.id : t \in timers}

\* cancelSearchbar(ev): ionCancel, clearInput(ev), then _shouldBlur = true
cancelSearchbar(ev) ==
  /\ Ready
  /\ out' = <<Emit("ionCancel", ev)>> \o ClearOut(_value, ev)
  /\ _value' = ClearedValue(_value)
  /\ _shouldBlur' = TRUE
  /\ lastOp' = Op("cancelSearchbar", ev)
  /\ UNCHANGED <<phase, _tmr, isFocused, shouldLeftAlign, mode, style,
                 debounce, onChange, timers, nextHandle, now, burst>>
  /\ UNCHANGED <<props, config, inputAttrs>>
  /\ stale' = {t.id : t \in timers}

-----------------------------------------------------------------------------
(* Specification *)

Next ==
  \/ ngOnInit
  \/ _searchbarInput
  \/ ngAfterViewInit
  \/ destroy
  \/ \E v \in HostValues : setValue(v)
  \/ \E v \in HostValues : writeValue(v)
  \/ \E fn \in Callbacks : registerOnChange(fn)
  \/ \E ev \in InputEvents : inputChanged(ev)
  \/ \E t \in timers : timerFired(t)
  \/ \E d \in Steps \cup {t.due - now : t \in timers} : tick(d)
  \/ \E ev \in FocusEvents : inputFocused(ev)
  \/ \E ev \in BlurEvents : inputBlurred(ev)
  \/ \E ev \in ButtonEvents : clearInput(ev)
  \/ \E ev \in ButtonEvents : cancelSearchbar(ev)

Spec == Init /\ [][Next]_vars

\* the initialisation alone, for every setting of the attribute properties
NextAttr ==
  \/ ngOnInit
  \/ _searchbarInput

SpecAttr == InitAttr /\ [][NextAttr]_vars

-----------------------------------------------------------------------------
(* Properties *)

\* the string form of a present value is not blank
HasText(v) == isPresent(v) /\ trim(toString(v)) # <<>>

\* C1: in every reachable state at most one debounce timer is pending.
C1_AtMostOneTimer == Cardinality(timers) <= 1

\* C1 witness: a second input event arrived while the timer of the first was
\* pending, and one timer is left.
C1_Witness ==
  /\ lastOp.op = "inputChanged"
  /\ burst.len >= 2
  /\ Cardinality(timers) = 1

\* C2: a burst of input events, each less than debounce after the previous
\* one, is committed at most once, only for its last event and with the value
\* of that event; the commit calls the change callback once and emits one
\* ionInput carrying the last event; once more than debounce + 0.5 ms have
\* passed since the last event, exactly one commit has happened.
C2_OneCommitPerBurst ==
  burst.len > 0 =>
    /\ Len(burst.commits) <= 1
    /\ \A i \in DOMAIN burst.commits :
         /\ burst.commits[i].ev = burst.lastEv
         /\ burst.commits[i].value = burst.lastEv.value
    /\ lastOp.op = "timerFired" =>
         /\ _value = burst.lastEv.value
         /\ Cardinality(Calls(out)) = 1
         /\ Cardinality(Emits(out, "ionInput")) = 1
         /\ \A i \in Emits(out, "ionInput") : out[i].ev = burst.lastEv
    /\ 2 * (now - burst.lastAt) > debounce + 1 => Len(burst.commits) = 1

\* C2 witness: a burst of two events has been committed.
C2_Witness ==
  /\ burst.len = 2
  /\ burst.firstEv # burst.lastEv
  /\ Len(burst.commits) = 1
  /\ lastOp.op = "timerFired"

\* C3: a commit happens exactly round(debounce) ms after the most recent input
\* event (d with d - 0.5 <= debounce < d + 0.5), no timer is overdue, and with
\* debounce 250, "a" at t = 0 and "ab" at t = 100 there is no commit before
\* t = 350 and the one commit of "ab" is at t = 350.
C3_CommitAtRoundedDelay ==
  /\ \A i \in DOMAIN burst.commits :
       LET d == burst.commits[i].at - burst.lastAt
       IN  2 * d - 1 <= debounce /\ debounce < 2 * d + 1
  /\ \A t \in timers : now <= t.due
  /\ ( /\ debounce = 500
       /\ burst.len = 2
       /\ burst.firstAt = 0 /\ burst.firstEv.value = Str(<<"a">>)
       /\ burst.lastAt = 100 /\ burst.lastEv.value = Str(<<"a", "b">>) )
     => /\ now < 350 => burst.commits = <<>>
        /\ now > 350 => Len(burst.commits) = 1
        /\ Len(burst.commits) <= 1
        /\ \A i \in DOMAIN burst.commits :
             /\ burst.commits[i].at = 350
             /\ burst.commits[i].value = Str(<<"a", "b">>)

\* C3 witness: the scenario has run to its commit at t = 350.
C3_Witness ==
  /\ debounce = 500
  /\ burst.len = 2
  /\ burst.firstAt = 0 /\ burst.firstEv.value = Str(<<"a">>)
  /\ burst.lastAt = 100 /\ burst.lastEv.value = Str(<<"a", "b">>)
  /\ now = 350
  /\ Len(burst.commits) = 1
  /\ _value = Str(<<"a", "b">>)

\* C4: clearInput on a present, non-empty value makes the value '' in the
\* same step, touches no timer, calls the change callback once and emits one
\* ionInput; on an empty or absent value it leaves the value, calls nothing
\* and emits no ionInput.
C4_ClearCommitsImmediately ==
  [][lastOp'.op = "clearInput" =>
       IF isPresent(_value) /\ _value # EmptyStr
       THEN /\ _value' = EmptyStr
            /\ timers' = timers
            /\ Cardinality(Calls(out')) = 1
            /\ \A i \in Calls(out') : out'[i].arg = EmptyStr
            /\ Cardinality(Emits(out', "ionInput")) = 1
       ELSE /\ _value' = _value
            /\ Calls(out') = {}
            /\ Emits(out', "ionInput") = {}]_vars

\* C4 witness: clearInput has just cleared a non-empty value.
C4_Witness ==
  /\ lastOp.op = "clearInput"
  /\ _value = EmptyStr
  /\ Emits(out, "ionInput") # {}

\* C5: once the component is destroyed no debounced commit fires: the value
\* is not changed, the change callback is not called and no ionInput is
\* emitted.
C5_NoCommitAfterDestroy ==
  [][phase = "destroyed" =>
       /\ _value' = _value
       /\ Calls(out') = {}
       /\ Emits(out', "ionInput") = {}]_vars

\* C6: after initialization shouldLeftAlign is true exactly when the widget
\* is focused, or is unfocused with a present value whose trimmed string form
\* is not empty.
C6_AlignInvariant ==
  phase \in {"initialized", "ready"} =>
    (Truthy(shouldLeftAlign) <=> (isFocused = Bool(TRUE) \/ HasText(_value)))

\* C7: right after a blur processed with the suppress-blur flag unset,
\* shouldLeftAlign equals (value present) and (trimmed string form not '').
C7_AlignAfterBlur ==
  (lastOp.op = "inputBlurred" /\ Emits(out, "ionBlur") # {}) =>
    (Truthy(shouldLeftAlign) <=> HasText(_value))

\* C8: right after an input-focus event isFocused and shouldLeftAlign are
\* true and exactly one ionFocus, carrying that event, has been emitted.
C8_FocusForcesLeftAlign ==
  lastOp.op = "inputFocused" =>
    /\ isFocused = Bool(TRUE)
    /\ shouldLeftAlign = Bool(TRUE)
    /\ Cardinality(Emits(out, "ionFocus")) = 1
    /\ \A i \in Emits(out, "ionFocus") : out[i].ev = lastOp.arg

\* C8 witness: focus arrived with an absent value and the flag raised.
C8_Witness ==
  /\ lastOp.op = "inputFocused"
  /\ _value = Undefined
  /\ _shouldBlur = FALSE

\* C9: right after cancelSearchbar the suppress-blur flag is lowered
\* (_shouldBlur is true), and a blur that comes next unfocuses and emits
\* ionBlur.
C9_CancelLowersFlag ==
  [][/\ lastOp'.op = "cancelSearchbar" => _shouldBlur' = TRUE
     /\ (lastOp.op = "cancelSearchbar" /\ lastOp'.op = "inputBlurred") =>
          /\ isFocused' = Bool(FALSE)
          /\ Cardinality(Emits(out', "ionBlur")) = 1]_vars

\* C9 witness: cancel has cleared a non-empty value while focused and left the
\* flag lowered.
C9_Witness ==
  /\ lastOp.op = "cancelSearchbar"
  /\ isFocused = Bool(TRUE)
  /\ Emits(out, "ionInput") # {}
  /\ _shouldBlur = TRUE

\* C10: writeValue(v) makes v the value in the same step, schedules no timer,
\* calls no callback, emits nothing and leaves isFocused, shouldLeftAlign,
\* the suppress-blur flag and the pending timer as they were.
C10_WriteValueFrame ==
  [][lastOp'.op = "writeValue" =>
       /\ _value' = lastOp'.arg
       /\ out' = <<>>
       /\ UNCHANGED <<isFocused, shouldLeftAlign, _shouldBlur, timers, _tmr,
                      nextHandle>>]_vars

\* C10 witness: writeValue ran while focused with a timer pending.
C10_Witness ==
  /\ lastOp.op = "writeValue"
  /\ timers # {}
  /\ isFocused = Bool(TRUE)
  /\ _value = Num(0)

\* C11: a blur that arrives with the suppress-blur flag raised re-asserts
\* focus on the input element, lowers the flag, emits no ionBlur and leaves
\* isFocused, shouldLeftAlign and the value; a blur that arrives with the flag
\* lowered emits one ionBlur and sets isFocused to false.
C11_SuppressedBlur ==
  [][lastOp'.op = "inputBlurred" =>
       IF _shouldBlur = FALSE
       THEN /\ out' = <<DomFocus>>
            /\ _shouldBlur' = TRUE
            /\ UNCHANGED <<isFocused, shouldLeftAlign, _value>>
       ELSE /\ out' = <<Emit("ionBlur", lastOp'.arg)>>
            /\ isFocused' = Bool(FALSE)
            /\ UNCHANGED <<_shouldBlur, _value>>]_vars

\* C11 witness: a blur was suppressed while the widget was focused.
C11_Witness ==
  /\ lastOp.op = "inputBlurred"
  /\ out = <<DomFocus>>
  /\ isFocused = Bool(TRUE)
  /\ _shouldBlur = TRUE

\* C12: a clearInput call (outside cancel) emits exactly one ionClear and
\* leaves the suppress-blur flag raised whatever the value was; a blur that
\* comes next emits no ionBlur and leaves isFocused as it was.
C12_ClearRaisesFlag ==
  [][/\ lastOp'.op = "clearInput" =>
          /\ Cardinality(Emits(out', "ionClear")) = 1
          /\ out'[1] = Emit("ionClear", lastOp'.arg)
          /\ _shouldBlur' = FALSE
     /\ (lastOp.op = "clearInput" /\ lastOp'.op = "inputBlurred") =>
          /\ isFocused' = isFocused
          /\ Emits(out', "ionBlur") = {}]_vars

\* C12 witness: clearInput ran on an empty value while focused; only ionClear
\* was emitted and the flag is raised.
C12_Witness ==
  /\ lastOp.op = "clearInput"
  /\ isFocused = Bool(TRUE)
  /\ Len(out) = 1
  /\ _shouldBlur = FALSE

C14_CommitUsesCapturedValue ==
  [][lastOp'.op = "timerFired" =>
       \E t \in timers :
         /\ t \notin timers'
         /\ t.ev = lastOp'.arg
         /\ t.value = t.ev.value
         /\ _value' = t.ev.value
         /\ out' = <<Call(onChange, t.ev.value), Emit("ionInput", t.ev)>>]_vars

\* C14 witness: a commit of "ab" called the callback that registerOnChange
\* registered.
C14_Witness ==
  /\ lastOp.op = "timerFired"
  /\ Len(out) = 2
  /\ out[1].fn = "fn1"
  /\ out[1].arg = Str(<<"a", "b">>)
  /\ _value = Str(<<"a", "b">>)

\* C16: under a mode other than ios no step changes the inline styles; under
\* ios, after view initialization, a focus or an unsuppressed blur the input
\* and icon elements carry the centering offsets exactly when shouldLeftAlign
\* is falsy, and no inline style otherwise.
C16_StyleOnlyUnderIos ==
  [][/\ mode' # "ios" => style' = style
     /\ ( /\ mode' = "ios"
          /\ \/ lastOp'.op \in {"ngAfterViewInit", "inputFocused"}
             \/ lastOp'.op = "inputBlurred" /\ Emits(out', "ionBlur") # {} )
        => /\ ~Truthy(shouldLeftAlign') =>
                style' = [input |-> "paddingLeft", icon |-> "marginLeft"]
           /\ Truthy(shouldLeftAlign') =>
                style' = [input |-> "none", icon |-> "none"]]_vars

\* C16 witness: under ios a blur with an empty value put the centering
\* offsets back.
C16_Witness ==
  /\ mode = "ios"
  /\ lastOp.op = "inputBlurred"
  /\ Emits(out, "ionBlur") # {}
  /\ ~Truthy(shouldLeftAlign)
  /\ style.input = "paddingLeft"

\* C18: in every step the change callback is called as often as ionInput is
\* emitted, each ionInput comes right after a call whose argument is the
\* value at that moment, and writeValue, value assignment, focus and blur
\* produce neither.
C18_CallbackPerNotification ==
  /\ Cardinality(Calls(out)) = Cardinality(Emits(out, "ionInput"))
  /\ \A i \in Emits(out, "ionInput") :
       /\ i > 1
       /\ out[i - 1].k = "call"
       /\ out[i - 1].arg = _value
  /\ lastOp.op \in {"writeValue", "setValue", "inputFocused", "inputBlurred"} =>
       (Calls(out) = {} /\ Emits(out, "ionInput") = {})

\* C18 witness: a step called the callback and emitted ionInput.
C18_Witness ==
  /\ lastOp.op \in {"clearInput", "cancelSearchbar"}
  /\ Cardinality(Calls(out)) = 1
  /\ Cardinality(Emits(out, "ionInput")) = 1

\* C19: the flag suppresses at most one blur: the flag is raised only by
\* clearInput, every blur and every cancel leaves it lowered, a blur is
\* suppressed only when the flag was raised, and the second of two blurs in a
\* row unfocuses and emits ionBlur.
C19_AtMostOneSuppressedBlur ==
  [][/\ (_shouldBlur = TRUE /\ _shouldBlur' = FALSE) => lastOp'.op = "clearInput"
     /\ lastOp'.op \in {"inputBlurred", "cancelSearchbar"} => _shouldBlur' = TRUE
     /\ (lastOp'.op = "inputBlurred" /\ Emits(out', "ionBlur") = {}) =>
          _shouldBlur = FALSE
     /\ (lastOp.op = "inputBlurred" /\ lastOp'.op = "inputBlurred") =>
          /\ Cardinality(Emits(out', "ionBlur")) = 1
          /\ isFocused' = Bool(FALSE)]_vars

\* C19 witness: a blur was suppressed after a clear had emptied the value, and
\* the flag is lowered again for the blur that follows.
C19_Witness ==
  /\ lastOp.op = "inputBlurred"
  /\ Emits(out, "ionBlur") = {}
  /\ Len(out) = 1
  /\ _shouldBlur = TRUE
  /\ _value = EmptyStr

\* C15: for autocomplete, autocorrect and spellcheck an explicitly supplied
\* property value determines the attribute ('' and 'on' give on, 'off' gives
\* off; '', 'true' and true give true, 'false' and false give false), and the
\* configured default (off / false when none is configured) is used only when
\* the property is unset.
C15_ExplicitPropertyWins ==
  inputAttrs.set =>
    /\ \A key \in {"autocomplete", "autocorrect"} :
         inputAttrs[key] =
           IF props[key] \in {EmptyStr, On} THEN On
           ELSE IF props[key] = Off THEN Off
           ELSE IF config[key] # Undefined THEN config[key]
           ELSE Off
    /\ inputAttrs.spellcheck =
         IF props.spellcheck \in {EmptyStr, TrueStr, Bool(TRUE)} THEN TrueStr
         ELSE IF props.spellcheck \in {FalseStr, Bool(FALSE)} THEN FalseStr
         ELSE IF config.spellcheck = Bool(TRUE) THEN TrueStr
         ELSE FalseStr

\* C17: once clearInput or cancelSearchbar has run with a commit pending,
\* until an input event, writeValue or an assignment of the value the value
\* stays as the clear left it and no ionInput is emitted for the pending
\* commit.
C17_ClearedValueStays ==
  [][(stale # {} /\ lastOp'.op \notin {"inputChanged", "writeValue", "setValue"}) =>
       /\ _value' = _value
       /\ Emits(out', "ionInput") = {}
       /\ lastOp'.op # "timerFired"]_vars

====
